---- MODULE Spec2Model ----
(***************************************************************************)
(* Model of the messaging reliability layer of flare-go/nexus:             *)
(*   - driver.jetStreamNatsManager.Publish (bounded retry with backoff),   *)
(*   - worker.Pool (Submit / wrappedTask / Tune / Release and its metrics),*)
(*   - driver.NewNatsManager and the stream reconciliation it runs.        *)
(* Durations are in milliseconds.                                          *)
(***************************************************************************)
EXTENDS Integers, Sequences, FiniteSets

\* ------------------------------------------------------------------ bounds
\* Number of Publish calls made one after the other.
MaxCalls == 2

\* Number of Submit calls made on the pool.
MaxTasks == 2
\* Largest pool size Tune is called with.
MaxCap == 2
MaxOpts == 2

\* ------------------------------------------------------- program constants
\* nats.go:209  maxRetries = 3
maxRetries == 3
\* nats.go:210  backoff = time.Millisecond * 100
backoff == 100

VARIABLES
  \* ---- Publish (driver/nats.go:207-237)
  pc,          \* position of the running Publish call
  attempt,     \* the loop variable `attempt`
  lastErr,     \* the local `lastErr`
  ctxDone,     \* whether the caller's ctx is cancelled
  result,      \* what Publish returned
  attempts,    \* number of js.Publish calls this Publish call made
  outcomes,    \* what the broker answered to each of them, in order
  sleeps,      \* the sleepTime of every m.sleep call of this Publish call
  cancelAt,    \* where the call stood when ctx was cancelled
  calls,       \* number of Publish calls started
  streamSeq    \* broker side: sequence number of the last accepted message

pubVars == <<pc, attempt, lastErr, ctxDone, result, attempts, outcomes,
             sleeps, cancelAt, calls, streamSeq>>

VARIABLES
  \* ---- worker.Pool (worker/pool.go, src/unnamed/part_004)
  completed,   \* metrics.CompletedTasks
  failed,      \* metrics.FailedTasks
  running,     \* metrics.RunningTasks
  waiting,     \* metrics.WaitingTasks
  cfg,         \* the Config the pool was built with (Nonblocking, MaxBlockTasks)
  cap,         \* capacity of the ants pool
  closed,      \* the ants pool has been released
  busy,        \* number of ants workers holding a task
  st,          \* per Submit call: where the call, then its wrappedTask, stands
  kind,        \* per task: how task() ended ("ok", "err", "panic")
  ret,         \* per Submit call: what Submit returned
  invoked,     \* per task: the task body has been invoked
  delta,       \* per Submit call: what it and its wrappedTask added to each metric
  afterPanic   \* per Submit call: made after a panicking task had finished

poolVars == <<completed, failed, running, waiting, cfg, cap, closed, busy,
              st, kind, ret, invoked, delta, afterPanic>>

VARIABLES
  \* ---- stream reconciliation and manager construction (driver/nats.go:61-174)
  stream,      \* broker side: the policy of the stream of that name, or "absent"
  mg           \* per manager: its NewNatsManager / createOrUpdateStream call

strVars == <<stream, mg>>

VARIABLES
  \* ---- Release and GracefulShutdown calls, Submit contexts (part_004:99-200)
  gs,                \* GracefulShutdown: "idle", "waiting" in its select,
                     \* returned "nil" or "timeout"
  gsGo,              \* its goroutine: "none", "spawned", "done" (done is closed)
  gsRunning,         \* the running counter when GracefulShutdown returned
  gsExecuting,       \* the number of tasks with a worker at that moment
  shutDone,          \* a Release or GracefulShutdown call has returned
  shutBefore,        \* the Submit calls made before the first such return
  cancelledBlocked,  \* the Submit calls whose ctx was cancelled while parked
  releases           \* the callers that have called p.pool.Release() so far

shutVars == <<gs, gsGo, gsRunning, gsExecuting, shutDone, shutBefore,
              cancelledBlocked, releases>>

\* Number of p.pool.Release() calls made so far.
nRelease == Cardinality(releases)

VARIABLES
  \* ---- subscription dispatcher (driver/nats.go:177-205), per delivery
  dsp,         \* wrappedHandler: "none", "dropped" after a failed Submit
  hcalls,      \* number of invocations of the handler
  hkind,       \* how the handler ended: "unset", "ok", "err", "panic"
  acks,        \* number of acknowledgements sent by the dispatcher
  logged       \* number of errors logged by the dispatcher

subVars == <<dsp, hcalls, hkind, acks, logged>>

VARIABLES
  \* ---- HealthCheck and the Subscribe call (driver/nats.go:177-205, 254-320)
  info,        \* broker side: the stream's message count and its max_msgs
  hc,          \* the last HealthCheck call: what it saw, did and returned
  sbs          \* the last Subscribe call: options given, passed, in effect

apiVars == <<info, hc, sbs>>

\* Everything but the publisher, the pool and what is declared with them.
extVars == <<strVars, shutVars, subVars, apiVars>>

vars == <<pubVars, poolVars, extVars>>

\* ------------------------------------------------------------ error values
NonRetryableErrs == {"ErrJetStreamNotEnabled", "ErrInvalidJSAck"}
RetryableErrs    == {"ErrTimeout", "ErrNoResponders"}
CtxErr           == "context.Canceled"
BrokerOutcomes   == {"ok"} \cup RetryableErrs \cup NonRetryableErrs

NoResult  == [kind |-> "none", cause |-> "none", n |-> 0]
NotCancelled == [pc |-> "none", attempt |-> 0, attempts |-> 0]

RECURSIVE Pow2(_)
Pow2(n) == IF n = 0 THEN 1 ELSE 2 * Pow2(n - 1)

\* nats.go:342-348
shouldRetryAlways(err) == TRUE

shouldRetryInverted(err) ==
  err = "ErrJetStreamNotEnabled" \/ err = "ErrInvalidJSAck"

shouldRetry(err) ==
  ~(err = "ErrJetStreamNotEnabled" \/ err = "ErrInvalidJSAck")

\* nats.go:352  sleepTime := backoff * time.Duration(1<<attempt)
sleepTimeConstant(b, a) == b

sleepTime(b, a) == b * Pow2(a)

\* nats.go:221  if attempt == maxRetries-1 { break }
isLastAttemptNever(a) == FALSE

isLastAttempt(a) == a = maxRetries - 1

\* nats.go:236  fmt.Errorf("failed to publish after %d attempts: %w", maxRetries, lastErr)
publishFailed(err) == [kind |-> "failedAfter", cause |-> err, n |-> maxRetries]

\* nats.go:233  return nil, after an attempt without error
resultOnAckLost == publishFailed("none")

resultOnAck == [kind |-> "nil", cause |-> "none", n |-> 0]

\* nats.go:216  fmt.Errorf("context cancelled: %w", err)
ctxCancelled == [kind |-> "ctxCancelled", cause |-> CtxErr, n |-> 0]

\* nats.go:356  fmt.Errorf("context cancelled during retry: %w", ctx.Err())
ctxCancelledDuringRetry ==
  [kind |-> "ctxCancelledDuringRetry", cause |-> CtxErr, n |-> 0]

PubInit ==
  /\ pc = "idle"
  /\ attempt = 0
  /\ lastErr = "none"
  /\ ctxDone = FALSE
  /\ result = NoResult
  /\ attempts = 0
  /\ outcomes = <<>>
  /\ sleeps = <<>>
  /\ cancelAt = NotCancelled
  /\ calls = 0
  /\ streamSeq = 0

\* A caller invokes Publish(ctx, subject, data) with a fresh context:
\* nats.go:207-214, `var lastErr error` and `attempt := 0`.
PublishCall ==
  /\ pc \in {"idle", "done"}
  /\ calls < MaxCalls
  /\ calls' = calls + 1
  /\ pc' = "check"
  /\ attempt' = 0
  /\ lastErr' = "none"
  /\ ctxDone' = FALSE
  /\ result' = NoResult
  /\ attempts' = 0
  /\ outcomes' = <<>>
  /\ sleeps' = <<>>
  /\ cancelAt' = NotCancelled
  /\ UNCHANGED streamSeq
  /\ UNCHANGED poolVars
  /\ UNCHANGED extVars

\* The caller (another goroutine, or a deadline) cancels ctx.  It can happen
\* at any point of the call, also before the first loop iteration.
CtxCancel ==
  /\ pc \in {"check", "attempt", "sleep"}
  /\ ~ctxDone
  /\ ctxDone' = TRUE
  /\ cancelAt' = [pc |-> pc, attempt |-> attempt, attempts |-> attempts]
  /\ UNCHANGED <<pc, attempt, lastErr, result, attempts, outcomes, sleeps,
                 calls, streamSeq>>
  /\ UNCHANGED poolVars
  /\ UNCHANGED extVars

\* nats.go:215  if err := ctx.Err(); err != nil
ctxErrIgnored(done) == FALSE

ctxErrNotNil(done) == done

\* nats.go:214-217: the loop condition and the ctx.Err() check.
PublishCheckCtx ==
  /\ pc = "check"
  /\ IF attempt < maxRetries
       THEN IF ctxErrNotNil(ctxDone)
              THEN /\ result' = ctxCancelled
                   /\ pc' = "done"
              ELSE /\ pc' = "attempt"
                   /\ UNCHANGED result
       ELSE /\ result' = publishFailed(lastErr)
            /\ pc' = "done"
  /\ UNCHANGED <<attempt, lastErr, ctxDone, attempts, outcomes, sleeps,
                 cancelAt, calls, streamSeq>>
  /\ UNCHANGED poolVars
  /\ UNCHANGED extVars

\* What js.Publish(subject, data, nats.Context(ctx)) can answer
\* (nats.go:240): the broker's answer, or ctx's error once ctx is done.
publishWithTimeout == BrokerOutcomes \cup (IF ctxDone THEN {CtxErr} ELSE {})

\* nats.go:219-233: one attempt and what the loop body does with its error,
\* up to the call of m.sleep (whose select is SleepTimer / SleepCtxDone).
PublishAttempt(o) ==
  /\ pc = "attempt"
  /\ o \in publishWithTimeout
  /\ attempts' = attempts + 1
  /\ outcomes' = Append(outcomes, o)
  /\ streamSeq' = IF o = "ok" THEN streamSeq + 1 ELSE streamSeq
  /\ IF o = "ok"
       THEN /\ result' = resultOnAck
            /\ pc' = "done"
            /\ UNCHANGED <<lastErr, sleeps>>
       ELSE /\ lastErr' = o
            /\ IF isLastAttempt(attempt) \/ ~shouldRetry(o)
                 THEN /\ result' = publishFailed(o)
                      /\ pc' = "done"
                      /\ UNCHANGED sleeps
                 ELSE /\ sleeps' = Append(sleeps, sleepTime(backoff, attempt))
                      /\ pc' = "sleep"
                      /\ UNCHANGED result
  /\ UNCHANGED <<attempt, ctxDone, cancelAt, calls>>
  /\ UNCHANGED poolVars
  /\ UNCHANGED extVars

\* nats.go:357-358 then 231 and the loop's attempt++: the timer fired.
SleepTimer ==
  /\ pc = "sleep"
  /\ attempt' = attempt + 1
  /\ pc' = "check"
  /\ UNCHANGED <<lastErr, ctxDone, result, attempts, outcomes, sleeps,
                 cancelAt, calls, streamSeq>>
  /\ UNCHANGED poolVars
  /\ UNCHANGED extVars

\* nats.go:355-356 then 228-229: ctx.Done() was chosen by the select.
SleepCtxDone ==
  /\ pc = "sleep"
  /\ ctxDone
  /\ result' = ctxCancelledDuringRetry
  /\ pc' = "done"
  /\ UNCHANGED <<attempt, lastErr, ctxDone, attempts, outcomes, sleeps,
                 cancelAt, calls, streamSeq>>
  /\ UNCHANGED poolVars
  /\ UNCHANGED extVars

PubNext ==
  \/ PublishCall
  \/ CtxCancel
  \/ PublishCheckCtx
  \/ \E o \in BrokerOutcomes \cup {CtxErr} : PublishAttempt(o)
  \/ SleepTimer
  \/ SleepCtxDone

\* ============================================================ worker.Pool
Tasks == 1..MaxTasks

\* The configurations NewPool is given (part_004:72-77): non-blocking;
\* blocking without a limit on blocked submitters (MaxBlockTasks = 0);
\* blocking with at most one blocked submitter.
Configs == {[Nonblocking |-> TRUE,  MaxBlockTasks |-> 0],
            [Nonblocking |-> FALSE, MaxBlockTasks |-> 0],
            [Nonblocking |-> FALSE, MaxBlockTasks |-> 1]}

NoDelta == [completed |-> 0, failed |-> 0, running |-> 0, waiting |-> 0]

\* part_004:61-95  NewPool: a fresh Metrics{} and an open ants pool.
PoolNew(c, size) ==
  /\ completed = 0 /\ failed = 0 /\ running = 0 /\ waiting = 0
  /\ cfg = c
  /\ cap = size
  /\ closed = FALSE
  /\ busy = 0
  /\ st = [t \in Tasks |-> "new"]
  /\ kind = [t \in Tasks |-> "unset"]
  /\ ret = [t \in Tasks |-> "none"]
  /\ invoked = [t \in Tasks |-> FALSE]
  /\ delta = [t \in Tasks |-> NoDelta]
  /\ afterPanic = [t \in Tasks |-> FALSE]

PoolInit == \E c \in Configs : PoolNew(c, 1)

Blocked == {t \in Tasks : st[t] = "blocked"}

PanicFinished == {t \in Tasks : st[t] = "finished" /\ kind[t] = "panic"}

\* Submit calls are numbered in the order they are made.
IsNextCall(t) == st[t] = "new" /\ (IF t = 1 THEN TRUE ELSE st[t - 1] # "new")

\* part_004:103  p.metrics.FailedTasks.Add(1) on a cancelled ctx
failedOnCtxDoneForgotten(f) == f

failedOnCtxDone(f) == f + 1

\* part_004:101-106: Submit with a ctx that is already cancelled.
SubmitCtxDone(t) ==
  /\ IsNextCall(t)
  /\ failed' = failedOnCtxDone(failed)
  /\ delta' = [delta EXCEPT ![t].failed = @ + (failed' - failed)]
  /\ ret' = [ret EXCEPT ![t] = "ctx.Err"]
  /\ st' = [st EXCEPT ![t] = "rejectedCtx"]
  /\ afterPanic' = [afterPanic EXCEPT ![t] = PanicFinished # {}]
  /\ UNCHANGED <<completed, running, waiting, cfg, cap, closed, busy, kind,
                 invoked>>
  /\ UNCHANGED pubVars
  /\ UNCHANGED extVars

\* part_004:108  p.metrics.WaitingTasks.Add(1)
waitingOnEnterForgotten(w) == w

waitingOnEnter(w) == w + 1

\* part_004:101-108: Submit with a live ctx, up to the call of p.pool.Submit.
SubmitEnter(t) ==
  /\ IsNextCall(t)
  /\ waiting' = waitingOnEnter(waiting)
  /\ delta' = [delta EXCEPT ![t].waiting = @ + (waiting' - waiting)]
  /\ st' = [st EXCEPT ![t] = "entered"]
  /\ afterPanic' = [afterPanic EXCEPT ![t] = PanicFinished # {}]
  /\ UNCHANGED <<completed, failed, running, cfg, cap, closed, busy, kind,
                 ret, invoked>>
  /\ UNCHANGED pubVars
  /\ UNCHANGED extVars

\* part_004:132  p.pool.Submit(wrappedTask) as the ants pool answers it:
\* "accept" hands the task to a worker, "block" parks the caller until a
\* worker is free, the others are the errors it returns.
antsSubmit ==
  IF closed THEN "ErrPoolClosed"
  ELSE IF busy < cap THEN "accept"
  ELSE IF cfg.Nonblocking THEN "ErrPoolOverload"
  ELSE IF cfg.MaxBlockTasks # 0 /\ Cardinality(Blocked) >= cfg.MaxBlockTasks
    THEN "ErrPoolOverload"
  ELSE "block"

\* part_004:132, err == nil: the task is with a worker; Submit returns nil
\* (part_004:139).
PoolAccept(t) ==
  /\ st[t] \in {"entered", "blocked"}
  /\ antsSubmit = "accept"
  /\ busy' = busy + 1
  /\ st' = [st EXCEPT ![t] = "queued"]
  /\ ret' = [ret EXCEPT ![t] = "nil"]
  /\ UNCHANGED <<completed, failed, running, waiting, cfg, cap, closed, kind,
                 invoked, delta, afterPanic>>
  /\ UNCHANGED pubVars
  /\ UNCHANGED extVars

\* part_004:132 in blocking mode with no free worker: the caller is parked.
PoolBlock(t) ==
  /\ st[t] = "entered"
  /\ antsSubmit = "block"
  /\ st' = [st EXCEPT ![t] = "blocked"]
  /\ UNCHANGED <<completed, failed, running, waiting, cfg, cap, closed, busy,
                 kind, ret, invoked, delta, afterPanic>>
  /\ UNCHANGED pubVars
  /\ UNCHANGED extVars

\* part_004:132-133, err != nil: the pool is closed (also for a parked
\* caller, woken by Release) or overloaded.
PoolRefuse(t) ==
  /\ \/ st[t] = "entered" /\ antsSubmit \in {"ErrPoolClosed", "ErrPoolOverload"}
     \/ st[t] = "blocked" /\ closed
  /\ ret' = [ret EXCEPT ![t] = IF closed THEN "ErrPoolClosed"
                                         ELSE "ErrPoolOverload"]
  /\ st' = [st EXCEPT ![t] = "refused"]
  /\ UNCHANGED <<completed, failed, running, waiting, cfg, cap, closed, busy,
                 kind, invoked, delta, afterPanic>>
  /\ UNCHANGED pubVars
  /\ UNCHANGED extVars

\* part_004:134  p.metrics.FailedTasks.Add(1)
failedOnSubmitError(f) == f + 1

\* part_004:135  p.metrics.WaitingTasks.Add(-1)
waitingOnSubmitErrorForgotten(w) == w

waitingOnSubmitError(w) == w - 1

\* part_004:133-137: Submit counts the refusal and returns the wrapped error.
SubmitFail(t) ==
  /\ st[t] = "refused"
  /\ failed' = failedOnSubmitError(failed)
  /\ waiting' = waitingOnSubmitError(waiting)
  /\ delta' = [delta EXCEPT ![t].failed = @ + (failed' - failed),
                            ![t].waiting = @ + (waiting' - waiting)]
  /\ st' = [st EXCEPT ![t] = "rejected"]
  /\ UNCHANGED <<completed, running, cfg, cap, closed, busy, kind, ret,
                 invoked, afterPanic>>
  /\ UNCHANGED pubVars
  /\ UNCHANGED extVars

\* part_004:124  p.metrics.RunningTasks.Add(1)
runningOnBegin(r) == r + 1

\* part_004:111-124: a worker starts wrappedTask.
TaskBegin(t) ==
  /\ st[t] = "queued"
  /\ running' = runningOnBegin(running)
  /\ delta' = [delta EXCEPT ![t].running = @ + (running' - running)]
  /\ st' = [st EXCEPT ![t] = "begun"]
  /\ UNCHANGED <<completed, failed, waiting, cfg, cap, closed, busy, kind,
                 ret, invoked, afterPanic>>
  /\ UNCHANGED pubVars
  /\ UNCHANGED extVars

\* part_004:125-127  if err := task(); err != nil { FailedTasks.Add(1) }
failedOnReturn(f, k) == IF k = "err" THEN f + 1 ELSE f

\* part_004:125-127: the task body runs to its end: it returns nil, returns
\* an error (counted at once), or panics (control passes to the deferred
\* function).
TaskBodyPool(t, k) ==
  /\ st[t] = "begun"
  /\ k \in {"ok", "err", "panic"}
  /\ kind' = [kind EXCEPT ![t] = k]
  /\ invoked' = [invoked EXCEPT ![t] = TRUE]
  /\ failed' = failedOnReturn(failed, k)
  /\ delta' = [delta EXCEPT ![t].failed = @ + (failed' - failed)]
  /\ st' = [st EXCEPT ![t] = IF k = "panic" THEN "panicked" ELSE "returned"]
  /\ UNCHANGED <<completed, running, waiting, cfg, cap, closed, busy, ret,
                 afterPanic>>

TaskBody(t, k) ==
  /\ TaskBodyPool(t, k)
  /\ UNCHANGED pubVars
  /\ UNCHANGED extVars

\* part_004:128  p.metrics.CompletedTasks.Add(1)
completedOnReturn(c) == c + 1

\* part_004:128: reached whenever task() returned, with or without an error.
TaskCompleted(t) ==
  /\ st[t] = "returned"
  /\ completed' = completedOnReturn(completed)
  /\ delta' = [delta EXCEPT ![t].completed = @ + (completed' - completed)]
  /\ st' = [st EXCEPT ![t] = "deferred"]
  /\ UNCHANGED <<failed, running, waiting, cfg, cap, closed, busy, kind, ret,
                 invoked, afterPanic>>
  /\ UNCHANGED pubVars
  /\ UNCHANGED extVars

\* part_004:113  p.metrics.RunningTasks.Add(-1)
runningOnDefer(r) == r - 1

\* part_004:114  p.metrics.WaitingTasks.Add(-1)
waitingOnDeferForgotten(w) == w

waitingOnDefer(w) == w - 1

\* part_004:115-116  if r := recover(); r != nil { FailedTasks.Add(1) }
failedOnRecoverNever(f, k) == f

failedOnRecover(f, k) == IF k = "panic" THEN f + 1 ELSE f

\* part_004:112-122: the deferred function, after a return or a panic; the
\* panic is recovered, wrappedTask returns and the worker is free again.
TaskDeferred(t) ==
  /\ st[t] \in {"deferred", "panicked"}
  /\ running' = runningOnDefer(running)
  /\ waiting' = waitingOnDefer(waiting)
  /\ failed' = failedOnRecover(failed, kind[t])
  /\ delta' = [delta EXCEPT ![t].running = @ + (running' - running),
                            ![t].waiting = @ + (waiting' - waiting),
                            ![t].failed = @ + (failed' - failed)]
  /\ busy' = busy - 1
  /\ st' = [st EXCEPT ![t] = "finished"]
  /\ UNCHANGED <<completed, cfg, cap, closed, kind, ret, invoked, afterPanic>>
  /\ UNCHANGED pubVars
  /\ UNCHANGED extVars

\* part_004:171-177  Tune: a non-positive size is refused, any other size is
\* passed to the ants pool as its new capacity (a size equal to the current
\* capacity changes nothing).
Tune(size) ==
  /\ cap' = IF size <= 0 THEN cap ELSE size
  /\ UNCHANGED <<completed, failed, running, waiting, cfg, closed, busy, st,
                 kind, ret, invoked, delta, afterPanic>>
  /\ UNCHANGED pubVars
  /\ UNCHANGED extVars

\* part_004:181-183  Release: the ants pool stops accepting tasks; parked
\* callers are woken (PoolRefuse); tasks already with a worker run on.
antsReleaseToggles ==
  /\ closed' = ~closed
  /\ UNCHANGED <<completed, failed, running, waiting, cfg, cap, busy, st,
                 kind, ret, invoked, delta, afterPanic>>

antsRelease ==
  /\ closed' = TRUE
  /\ UNCHANGED <<completed, failed, running, waiting, cfg, cap, busy, st,
                 kind, ret, invoked, delta, afterPanic>>

Release ==
  /\ antsRelease
  /\ UNCHANGED pubVars
  /\ UNCHANGED extVars

PoolNext ==
  \/ \E t \in Tasks : SubmitCtxDone(t)
  \/ \E t \in Tasks : SubmitEnter(t)
  \/ \E t \in Tasks : PoolAccept(t)
  \/ \E t \in Tasks : PoolBlock(t)
  \/ \E t \in Tasks : PoolRefuse(t)
  \/ \E t \in Tasks : SubmitFail(t)
  \/ \E t \in Tasks : TaskBegin(t)
  \/ \E t \in Tasks, k \in {"ok", "err", "panic"} : TaskBody(t, k)
  \/ \E t \in Tasks : TaskCompleted(t)
  \/ \E t \in Tasks : TaskDeferred(t)
  \/ \E size \in 0..MaxCap : Tune(size)
  \/ Release

\* ===================================== stream reconciliation, construction
\* Two processes, each with its own manager, on the same broker.
Managers == {"A", "B"}

\* nats.go:31-39  DefaultConfig (MaxAge in hours, MaxBytes in MiB), and a
\* configuration with another message limit.
NatsConfigs ==
  {[MaxAge |-> 24, MaxMsgs |-> 10000, MaxBytes |-> 1024],
   [MaxAge |-> 24, MaxMsgs |-> 5000,  MaxBytes |-> 1024]}

\* nats.go:96-103  the nats.StreamConfig setupStream builds (no Subjects).
setupStreamConfig(c) ==
  [MaxAge |-> c.MaxAge, MaxMsgs |-> c.MaxMsgs, MaxBytes |-> c.MaxBytes,
   Storage |-> "Memory", Retention |-> "WorkQueue", Subjects |-> <<>>]

\* Policies createOrUpdateStream is called with: those of setupStream, and
\* one with a subject list.
DesiredPolicies ==
  {setupStreamConfig(c) : c \in NatsConfigs} \cup
  {[MaxAge |-> 24, MaxMsgs |-> 10000, MaxBytes |-> 1024,
    Storage |-> "Memory", Retention |-> "WorkQueue",
    Subjects |-> <<"a", "b">>]}

\* Policies the stream can have before any manager runs: a desired policy, or
\* one that differs from it in one field.
VariantsOf(d) ==
  {d,
   [d EXCEPT !.MaxAge = 48],
   [d EXCEPT !.MaxMsgs = 20000],
   [d EXCEPT !.MaxBytes = 2048],
   [d EXCEPT !.Storage = "File"],
   [d EXCEPT !.Retention = "Limits"],
   [d EXCEPT !.Subjects = <<"b", "a">>],
   [d EXCEPT !.Subjects = <<"a", "c">>],
   [d EXCEPT !.Subjects = <<"a">>]}

ExistingPolicies == UNION {VariantsOf(d) : d \in DesiredPolicies}

\* The value standing for "no policy": no stream of that name, no answer.
NoPolicy ==
  [MaxAge |-> 0, MaxMsgs |-> 0, MaxBytes |-> 0,
   Storage |-> "none", Retention |-> "none", Subjects |-> <<>>]

StreamAbsent == stream = NoPolicy

\* Errors of the JetStream API calls (nats.go:112, 130, 155).
LookupFaults == {"ErrJetStreamNotEnabled", "ErrTimeout"}
CreateFaults == {"ErrJetStreamNotEnabled", "ErrTimeout", "ErrSubjectsOverlap",
                 "ErrStreamNameInUse"}
UpdateFaults == {"ErrJetStreamNotEnabled", "ErrTimeout", "ErrInvalidConfig"}

NoErr == [wrap |-> "none", cause |-> "nil"]

\* fmt.Errorf(wrap + ": %w", cause), or the bare cause when wrap is "none".
Wrapped(w, e) == [wrap |-> w, cause |-> e]

\* errors.Is(err, target): looks through the %w wrapping.
errorsIs(err, target) == err.cause = target

NoManager ==
  [pc |-> "idle", mode |-> "none", desired |-> NoPolicy, seen |-> NoPolicy,
   jsErr |-> "none", lookErr |-> "none", creErr |-> "none",
   updErr |-> "none", nLookup |-> 0, nCreate |-> 0, nUpdate |-> 0,
   creArg |-> NoPolicy, updArg |-> NoPolicy, serr |-> NoErr,
   retMgr |-> FALSE, retErr |-> NoErr, released |-> 0, faults |-> 0]

StrInit ==
  /\ stream \in {NoPolicy} \cup ExistingPolicies
  /\ mg = [m \in Managers |-> NoManager]

\* The state of the stream variables in the specifications that leave them
\* alone.
StrIdle ==
  /\ stream = NoPolicy
  /\ mg = [m \in Managers |-> NoManager]

\* nats.go:322-332
stringSlicesEqualLenOnly(a, b) == Len(a) = Len(b)

stringSlicesEqual(a, b) ==
  IF Len(a) # Len(b) THEN FALSE
  ELSE \A i \in 1..Len(a) : a[i] = b[i]

\* nats.go:167-174
isStreamConfigDifferentCrossed(a, b) ==
  \/ a.MaxAge # b.MaxAge
  \/ a.MaxMsgs # b.MaxBytes
  \/ a.MaxBytes # b.MaxBytes
  \/ a.Storage # b.Storage
  \/ a.Retention # b.Retention
  \/ ~stringSlicesEqual(a.Subjects, b.Subjects)

isStreamConfigDifferent(a, b) ==
  \/ a.MaxAge # b.MaxAge
  \/ a.MaxMsgs # b.MaxMsgs
  \/ a.MaxBytes # b.MaxBytes
  \/ a.Storage # b.Storage
  \/ a.Retention # b.Retention
  \/ ~stringSlicesEqual(a.Subjects, b.Subjects)

\* nats.go:117  errors.Is(err, nats.ErrStreamNotFound)
isStreamNotFoundNever(e) == FALSE

isStreamNotFoundAlways(e) == TRUE

isStreamNotFound(e) == e = "ErrStreamNotFound"

\* nats.go:134  strings.Contains(err.Error(), "subjects overlap")
isSubjectsOverlapNever(e) == FALSE

isSubjectsOverlap(e) == e = "ErrSubjectsOverlap"

\* nats.go:83  errors.Is(err, nats.ErrJetStreamNotEnabled)
isSetupFatalAlways(err) == TRUE

isSetupFatal(err) == errorsIs(err, "ErrJetStreamNotEnabled")

\* nats.go:61-67: NewNatsManager is called with a connection, a NatsConfig
\* and a pool; nc.JetStream() is next.
NewNatsManager(m, c) ==
  /\ mg[m].pc = "idle"
  /\ mg' = [mg EXCEPT ![m].pc = "jetstream", ![m].mode = "new",
                      ![m].desired = setupStreamConfig(c)]
  /\ UNCHANGED stream
  /\ UNCHANGED <<pubVars, poolVars, shutVars, subVars, apiVars>>

\* nats.go:67-81 and 92-105: nc.JetStream() fails (the pool is released and
\* the error returned) or the manager is built and setupStream calls
\* createOrUpdateStream with the policy it built.
NewJetStream(m, ok) ==
  /\ mg[m].pc = "jetstream"
  /\ mg' = IF ok
             THEN [mg EXCEPT ![m].pc = "lookup", ![m].jsErr = "nil"]
             ELSE [mg EXCEPT ![m].pc = "done",
                             ![m].jsErr = "ErrInvalidContext",
                             ![m].faults = @ + 1,
                             ![m].released = @ + 1,
                             ![m].retMgr = FALSE,
                             ![m].retErr = Wrapped("failed to get jetstream context",
                                                   "ErrInvalidContext")]
  /\ UNCHANGED stream
  /\ UNCHANGED <<pubVars, poolVars, shutVars, subVars, apiVars>>

\* nats.go:108: createOrUpdateStream(config) called with any policy.
EnsureStream(m, d) ==
  /\ mg[m].pc = "idle"
  /\ mg' = [mg EXCEPT ![m].pc = "lookup", ![m].mode = "ensure",
                      ![m].desired = d]
  /\ UNCHANGED stream
  /\ UNCHANGED <<pubVars, poolVars, shutVars, subVars, apiVars>>

\* What m.js.StreamInfo(name) answers (nats.go:112): the stream's policy,
\* not-found, or a failure of the call.
streamInfoTruthful == IF StreamAbsent THEN "ErrStreamNotFound" ELSE "nil"

streamInfo == {streamInfoTruthful} \cup LookupFaults

\* nats.go:112-123 and 147-153: the lookup and what follows from its answer
\* without another call: the error return, the way to createStream, the
\* comparison of updateStreamIfNeeded.
StreamLookup(m, e) ==
  /\ mg[m].pc = "lookup"
  /\ e \in streamInfo
  /\ LET d == mg[m].desired
         base == [mg[m] EXCEPT !.nLookup = @ + 1, !.lookErr = e,
                               !.faults = IF e = streamInfoTruthful THEN @
                                          ELSE @ + 1,
                               !.seen = IF e = "nil" THEN stream
                                                     ELSE NoPolicy]
     IN mg' = [mg EXCEPT ![m] =
          IF e # "nil"
            THEN IF isStreamNotFound(e)
                   THEN [base EXCEPT !.pc = "create"]
                   ELSE [base EXCEPT !.pc = "reconciled",
                                     !.serr = Wrapped("failed to get stream info", e)]
            ELSE IF ~isStreamConfigDifferent(stream, d)
                   THEN [base EXCEPT !.pc = "reconciled", !.serr = NoErr]
                   ELSE [base EXCEPT !.pc = "update"]]
  /\ UNCHANGED stream
  /\ UNCHANGED <<pubVars, poolVars, shutVars, subVars, apiVars>>

\* What m.js.AddStream(config) answers (nats.go:130): the broker creates the
\* stream, or finds it already there with the same policy, and answers nil;
\* it refuses a name in use with another policy; or the call fails.
addStreamTruthful(d) ==
  IF StreamAbsent \/ stream = d THEN "nil" ELSE "ErrStreamNameInUse"

addStream(d) == {addStreamTruthful(d)} \cup CreateFaults

\* nats.go:126-145  createStream
StreamCreate(m, e) ==
  /\ mg[m].pc = "create"
  /\ e \in addStream(mg[m].desired)
  /\ stream' = IF e = "nil" THEN mg[m].desired ELSE stream
  /\ mg' = [mg EXCEPT ![m].pc = "reconciled",
                      ![m].nCreate = @ + 1,
                      ![m].creArg = mg[m].desired,
                      ![m].creErr = e,
                      ![m].faults = IF e = addStreamTruthful(mg[m].desired)
                                      THEN @ ELSE @ + 1,
                      ![m].serr = IF e = "nil" \/ isSubjectsOverlap(e)
                                    THEN NoErr
                                    ELSE Wrapped("failed to create stream", e)]
  /\ UNCHANGED <<pubVars, poolVars, shutVars, subVars, apiVars>>

\* What m.js.UpdateStream(config) answers (nats.go:155).
updateStreamTruthful == IF StreamAbsent THEN "ErrStreamNotFound" ELSE "nil"

updateStream == {updateStreamTruthful} \cup UpdateFaults

\* nats.go:155-164  updateStreamIfNeeded, the update call
StreamUpdate(m, e) ==
  /\ mg[m].pc = "update"
  /\ e \in updateStream
  /\ stream' = IF e = "nil" THEN mg[m].desired ELSE stream
  /\ mg' = [mg EXCEPT ![m].pc = "reconciled",
                      ![m].nUpdate = @ + 1,
                      ![m].updArg = mg[m].desired,
                      ![m].updErr = e,
                      ![m].faults = IF e = updateStreamTruthful THEN @
                                    ELSE @ + 1,
                      ![m].serr = IF e = "nil" THEN NoErr
                                  ELSE Wrapped("none", e)]
  /\ UNCHANGED <<pubVars, poolVars, shutVars, subVars, apiVars>>

\* createOrUpdateStream returns to a caller other than NewNatsManager.
EnsureReturn(m) ==
  /\ mg[m].pc = "reconciled"
  /\ mg[m].mode = "ensure"
  /\ mg' = [mg EXCEPT ![m].pc = "done", ![m].retErr = mg[m].serr]
  /\ UNCHANGED stream
  /\ UNCHANGED <<pubVars, poolVars, shutVars, subVars, apiVars>>

\* nats.go:81-89: NewNatsManager after setupStream returned.
NewReturn(m) ==
  /\ mg[m].pc = "reconciled"
  /\ mg[m].mode = "new"
  /\ LET err == mg[m].serr
     IN mg' = [mg EXCEPT ![m] =
          IF err # NoErr
            THEN IF isSetupFatal(err)
                   THEN [@ EXCEPT !.pc = "done", !.released = @ + 1,
                                  !.retMgr = FALSE,
                                  !.retErr = Wrapped("jetstream not enabled", err.cause)]
                   ELSE [@ EXCEPT !.pc = "done", !.released = @ + 1,
                                  !.retMgr = TRUE, !.retErr = NoErr]
            ELSE [@ EXCEPT !.pc = "done", !.retMgr = TRUE, !.retErr = NoErr]]
  /\ UNCHANGED stream
  /\ UNCHANGED <<pubVars, poolVars, shutVars, subVars, apiVars>>

StrNext ==
  \/ \E m \in Managers, c \in NatsConfigs : NewNatsManager(m, c)
  \/ \E m \in Managers, ok \in BOOLEAN : NewJetStream(m, ok)
  \/ \E m \in Managers, d \in DesiredPolicies : EnsureStream(m, d)
  \/ \E m \in Managers, e \in {"nil", "ErrStreamNotFound"} \cup LookupFaults :
       StreamLookup(m, e)
  \/ \E m \in Managers, e \in {"nil"} \cup CreateFaults : StreamCreate(m, e)
  \/ \E m \in Managers, e \in {"nil", "ErrStreamNotFound"} \cup UpdateFaults :
       StreamUpdate(m, e)
  \/ \E m \in Managers : EnsureReturn(m)
  \/ \E m \in Managers : NewReturn(m)

\* ============================== shutdown of the pool, cancelled Submit ctx
ShutIdle ==
  /\ gs = "idle"
  /\ gsGo = "none"
  /\ gsRunning = 0
  /\ gsExecuting = 0
  /\ shutDone = FALSE
  /\ shutBefore = {}
  /\ cancelledBlocked = {}
  /\ releases = {}

\* The Submit calls made so far.
Called == {t \in Tasks : st[t] # "new"}

\* The tasks a worker holds: wrappedTask has started and not yet returned.
OnWorker == {t \in Tasks : st[t] \in {"begun", "returned", "panicked", "deferred"}}

\* A Release or GracefulShutdown call returns: the Submit calls made before
\* the first such return are remembered.
ShutReturned ==
  /\ shutDone' = TRUE
  /\ shutBefore' = IF shutDone THEN shutBefore ELSE Called

\* part_004:181-183  Release, called and returned.
ReleaseCall ==
  /\ "Release" \notin releases
  /\ antsRelease
  /\ releases' = releases \cup {"Release"}
  /\ ShutReturned
  /\ UNCHANGED <<gs, gsGo, gsRunning, gsExecuting, cancelledBlocked>>
  /\ UNCHANGED <<pubVars, strVars, subVars, apiVars>>

\* nats.go:297-309  Close of the manager that holds the pool: m.pool.Release()
\* and m.nc.Close(); it returns nil.
ManagerClose ==
  /\ "Close" \notin releases
  /\ antsRelease
  /\ releases' = releases \cup {"Close"}
  /\ ShutReturned
  /\ UNCHANGED <<gs, gsGo, gsRunning, gsExecuting, cancelledBlocked>>
  /\ UNCHANGED <<pubVars, strVars, subVars, apiVars>>

\* part_004:187-192  GracefulShutdown makes the done channel, starts the
\* goroutine and enters its select.
GracefulShutdown ==
  /\ gs = "idle"
  /\ gs' = "waiting"
  /\ gsGo' = "spawned"
  /\ UNCHANGED <<gsRunning, gsExecuting, shutDone, shutBefore, cancelledBlocked,
                 releases>>
  /\ UNCHANGED <<pubVars, poolVars, strVars, subVars, apiVars>>

\* part_004:189-192  the goroutine: p.pool.Release() returns without
\* waiting for the tasks that are with a worker, then close(done).
GracefulGoroutine ==
  /\ gsGo = "spawned"
  /\ antsRelease
  /\ gsGo' = "done"
  /\ releases' = releases \cup {"GracefulShutdown"}
  /\ UNCHANGED <<gs, gsRunning, gsExecuting, shutDone, shutBefore,
                 cancelledBlocked>>
  /\ UNCHANGED <<pubVars, strVars, subVars, apiVars>>

\* part_004:194-196  case <-done: return nil
GracefulReturnNil ==
  /\ gs = "waiting"
  /\ gsGo = "done"
  /\ gs' = "nil"
  /\ gsRunning' = running
  /\ gsExecuting' = Cardinality(OnWorker)
  /\ ShutReturned
  /\ UNCHANGED <<gsGo, cancelledBlocked, releases>>
  /\ UNCHANGED <<pubVars, poolVars, strVars, subVars, apiVars>>

\* part_004:197-198  case <-time.After(timeout): the timer fires, whatever
\* the goroutine has done so far.
GracefulReturnTimeout ==
  /\ gs = "waiting"
  /\ gs' = "timeout"
  /\ gsRunning' = running
  /\ gsExecuting' = Cardinality(OnWorker)
  /\ ShutReturned
  /\ UNCHANGED <<gsGo, cancelledBlocked, releases>>
  /\ UNCHANGED <<pubVars, poolVars, strVars, subVars, apiVars>>

\* The ctx of a Submit call is cancelled while the call is parked in
\* p.pool.Submit (part_004:132), which does not take the ctx: the call
\* stays parked.
SubmitCtxCancel(t) ==
  /\ st[t] = "blocked"
  /\ t \notin cancelledBlocked
  /\ cancelledBlocked' = cancelledBlocked \cup {t}
  /\ UNCHANGED <<gs, gsGo, gsRunning, gsExecuting, shutDone, shutBefore,
                 releases>>
  /\ UNCHANGED <<pubVars, poolVars, strVars, subVars, apiVars>>

ShutNext ==
  \/ \E t \in Tasks : SubmitCtxDone(t)
  \/ \E t \in Tasks : SubmitEnter(t)
  \/ \E t \in Tasks : PoolAccept(t)
  \/ \E t \in Tasks : PoolBlock(t)
  \/ \E t \in Tasks : PoolRefuse(t)
  \/ \E t \in Tasks : SubmitFail(t)
  \/ \E t \in Tasks : TaskBegin(t)
  \/ \E t \in Tasks, k \in {"ok", "err", "panic"} : TaskBody(t, k)
  \/ \E t \in Tasks : TaskCompleted(t)
  \/ \E t \in Tasks : TaskDeferred(t)
  \/ ReleaseCall
  \/ ManagerClose
  \/ GracefulShutdown
  \/ GracefulGoroutine
  \/ GracefulReturnNil
  \/ GracefulReturnTimeout
  \/ \E t \in Tasks : SubmitCtxCancel(t)

\* Release calls of every caller on a pool in use.
RelNext ==
  \/ \E t \in Tasks : SubmitEnter(t)
  \/ \E t \in Tasks : PoolAccept(t)
  \/ \E t \in Tasks : PoolBlock(t)
  \/ \E t \in Tasks : PoolRefuse(t)
  \/ \E t \in Tasks : SubmitFail(t)
  \/ \E t \in Tasks : TaskBegin(t)
  \/ \E t \in Tasks, k \in {"ok", "err", "panic"} : TaskBody(t, k)
  \/ \E t \in Tasks : TaskCompleted(t)
  \/ \E t \in Tasks : TaskDeferred(t)
  \/ ReleaseCall
  \/ ManagerClose
  \/ GracefulShutdown
  \/ GracefulGoroutine
  \/ GracefulReturnNil
  \/ GracefulReturnTimeout

\* ================================================ subscription dispatcher
\* Each Submit call of the pool is one delivery of a message to
\* wrappedHandler.
SubIdle ==
  /\ dsp = [t \in Tasks |-> "none"]
  /\ hcalls = [t \in Tasks |-> 0]
  /\ hkind = [t \in Tasks |-> "unset"]
  /\ acks = [t \in Tasks |-> 0]
  /\ logged = [t \in Tasks |-> 0]

\* nats.go:180-187  what the function given to the pool returns: nil when
\* the handler returned, with or without an error; a panic passes through.
wrappedResultEscalates(hk) == hk

wrappedResult(hk) == IF hk = "panic" THEN "panic" ELSE "ok"

\* nats.go:181-185  an error of the handler is logged.
loggedOnHandler(n, hk) == IF hk = "err" THEN n + 1 ELSE n

\* nats.go:180-187  a worker runs the function given to the pool: it calls
\* the handler once.
HandlerBody(t, hk) ==
  /\ hk \in {"ok", "err", "panic"}
  /\ TaskBodyPool(t, wrappedResult(hk))
  /\ hcalls' = [hcalls EXCEPT ![t] = @ + 1]
  /\ hkind' = [hkind EXCEPT ![t] = hk]
  /\ logged' = [logged EXCEPT ![t] = loggedOnHandler(@, hk)]
  /\ UNCHANGED <<dsp, acks>>
  /\ UNCHANGED <<pubVars, strVars, shutVars, apiVars>>

\* nats.go:188-193  no msg.Ack() on the path of a failed Submit
acksOnSubmitErrorAcked(a) == a + 1

acksOnSubmitError(a) == a

\* nats.go:188-193  Submit returned an error: wrappedHandler logs it and
\* returns.
DispatchDropped(t) ==
  /\ st[t] = "rejected"
  /\ dsp[t] = "none"
  /\ dsp' = [dsp EXCEPT ![t] = "dropped"]
  /\ logged' = [logged EXCEPT ![t] = @ + 1]
  /\ acks' = [acks EXCEPT ![t] = acksOnSubmitError(@)]
  /\ UNCHANGED <<hcalls, hkind>>
  /\ UNCHANGED <<pubVars, poolVars, strVars, shutVars, apiVars>>

\* Deliveries go through Submit with context.Background() (nats.go:180),
\* which is never cancelled: SubmitCtxDone is not among the steps.
SubNext ==
  \/ \E t \in Tasks : SubmitEnter(t)
  \/ \E t \in Tasks : PoolAccept(t)
  \/ \E t \in Tasks : PoolBlock(t)
  \/ \E t \in Tasks : PoolRefuse(t)
  \/ \E t \in Tasks : SubmitFail(t)
  \/ \E t \in Tasks : DispatchDropped(t)
  \/ \E t \in Tasks : TaskBegin(t)
  \/ \E t \in Tasks, hk \in {"ok", "err", "panic"} : HandlerBody(t, hk)
  \/ \E t \in Tasks : TaskCompleted(t)
  \/ \E t \in Tasks : TaskDeferred(t)
  \/ \E size \in 0..MaxCap : Tune(size)
  \/ Release

\* ============================================== HealthCheck, Subscribe call
\* Message counts and max_msgs values of the stream (max_msgs -1: no limit).
MsgCounts == {0, 8, 9, 10, 8999, 9000, 9001, 10000}
MaxMsgsValues == {-1, 0, 10, 10000}

NoHealthCheck ==
  [pc |-> "idle", lookErr |-> "none", msgs |-> 0, max |-> 0,
   warned |-> FALSE, ret |-> NoErr]

\* nats.go:312-313  usagePercentage := float64(Msgs) / float64(MaxMsgs) * 100;
\* usagePercentage >= 90.  For a positive max_msgs the float64 quotient and
\* product are monotonic in msgs and give exactly 90 at msgs/max = 9/10, so
\* the test is msgs*100 >= 90*max (for counts far below 2^53); a zero
\* max_msgs gives +Inf, or NaN for 0/0, which compares false; a negative one
\* gives a quotient that is not positive.
reachesLimitStrict(msgs, max) ==
  IF max > 0 THEN msgs * 100 > 90 * max
  ELSE IF max = 0 THEN msgs > 0
  ELSE FALSE

reachesLimit(msgs, max) ==
  IF max > 0 THEN msgs * 100 >= 90 * max
  ELSE IF max = 0 THEN msgs > 0
  ELSE FALSE

\* What m.js.StreamInfo(name) answers to HealthCheck (nats.go:272).
healthLookup == {"nil", "ErrStreamNotFound"} \cup LookupFaults

\* nats.go:268-279 and 311-320  HealthCheck with checkMessageLimit.
HealthCheck(e) ==
  /\ e \in healthLookup
  /\ hc' = IF e # "nil"
             THEN [pc |-> "done", lookErr |-> e, msgs |-> 0, max |-> 0,
                   warned |-> FALSE,
                   ret |-> Wrapped("failed to get stream info", e)]
             ELSE [pc |-> "done", lookErr |-> e,
                   msgs |-> info.msgs, max |-> info.max,
                   warned |-> reachesLimit(info.msgs, info.max),
                   ret |-> NoErr]
  /\ UNCHANGED <<info, sbs>>
  /\ UNCHANGED <<pubVars, poolVars, strVars, shutVars, subVars>>

\* The settings of a subscription that options act on.
OptKeys == {"ManualAck", "AckWait", "MaxDeliver", "DeliverPolicy", "Durable"}

SubOpt(k, v) == [key |-> k, val |-> v]

\* nats.go:255-260  defaultOpts
defaultOpts ==
  <<SubOpt("ManualAck", "true"), SubOpt("AckWait", "5s"),
    SubOpt("MaxDeliver", "3"), SubOpt("DeliverPolicy", "all")>>

\* Options a caller of Subscribe gives (nats.go:177, opts ...nats.SubOpt).
CallerOpts ==
  {SubOpt("AckWait", "30s"), SubOpt("AckWait", "10s"), SubOpt("MaxDeliver", "5"),
   SubOpt("MaxDeliver", "1"), SubOpt("DeliverPolicy", "new"),
   SubOpt("DeliverPolicy", "last"), SubOpt("Durable", "worker")}

CallerOptLists == UNION {[1..n -> CallerOpts] : n \in 0..MaxOpts}

\* nats.go:254-262  append(defaultOpts, opts...)
getSubscriptionNatsOptionCallerFirst(opts) == opts \o defaultOpts

getSubscriptionNatsOption(opts) == defaultOpts \o opts

NoSettings == [k \in OptKeys |-> "unset"]

\* js.Subscribe applies the options it is given one after the other, each
\* setting its own field (nats.go:199).
RECURSIVE applySubOpts(_, _)
applySubOpts(opts, acc) ==
  IF opts = <<>> THEN acc
  ELSE applySubOpts(Tail(opts), [acc EXCEPT ![Head(opts).key] = Head(opts).val])

NoSubscribe ==
  [pc |-> "idle", opts |-> <<>>, passed |-> <<>>, effective |-> NoSettings,
   subErr |-> "none", retSub |-> FALSE, ret |-> NoErr]

\* nats.go:177-205  Subscribe: the options are merged and passed, with
\* wrappedHandler, to js.Subscribe, whose error is returned wrapped.
Subscribe(opts, e) ==
  /\ opts \in CallerOptLists
  /\ e \in {"nil", "ErrTimeout"}
  /\ LET allOpts == getSubscriptionNatsOption(opts)
     IN sbs' = [pc |-> "done", opts |-> opts, passed |-> allOpts,
                effective |-> applySubOpts(allOpts, NoSettings),
                subErr |-> e,
                retSub |-> (e = "nil"),
                ret |-> IF e = "nil" THEN NoErr
                        ELSE Wrapped("failed to subscribe", e)]
  /\ UNCHANGED <<info, hc>>
  /\ UNCHANGED <<pubVars, poolVars, strVars, shutVars, subVars>>

ApiIdle ==
  /\ info = [msgs |-> 0, max |-> 10000]
  /\ hc = NoHealthCheck
  /\ sbs = NoSubscribe

ApiInit ==
  /\ info \in [msgs : MsgCounts, max : MaxMsgsValues]
  /\ hc = NoHealthCheck
  /\ sbs = NoSubscribe

HealthNext == \E e \in healthLookup : HealthCheck(e)

SubscribeNext ==
  \E opts \in CallerOptLists, e \in {"nil", "ErrTimeout"} : Subscribe(opts, e)

\* ========================================================= specifications
\* Publish calls on a manager; the pool is left alone.
InitPublish ==
  PubInit /\ PoolNew([Nonblocking |-> FALSE, MaxBlockTasks |-> 0], 1) /\ StrIdle
    /\ ShutIdle /\ SubIdle /\ ApiIdle

SpecPublish == InitPublish /\ [][PubNext]_vars

\* Submit, Tune and Release calls on a pool, interleaved with its workers.
InitPool == PubInit /\ PoolInit /\ StrIdle /\ ShutIdle /\ SubIdle /\ ApiIdle

SpecPool == InitPool /\ [][PoolNext]_vars

\* Managers being constructed, and createOrUpdateStream calls, on one broker.
InitStream ==
  PubInit /\ PoolNew([Nonblocking |-> FALSE, MaxBlockTasks |-> 0], 1) /\ StrInit
    /\ ShutIdle /\ SubIdle /\ ApiIdle

SpecStream == InitStream /\ [][StrNext]_vars

\* The pool with Release and GracefulShutdown calls and Submit contexts that
\* are cancelled while the call is parked.
InitShutdown == PubInit /\ PoolInit /\ StrIdle /\ ShutIdle /\ SubIdle /\ ApiIdle

SpecShutdown == InitShutdown /\ [][ShutNext]_vars

\* The pool with Release calls made directly, by Close and by
\* GracefulShutdown.
InitRelease == PubInit /\ PoolInit /\ StrIdle /\ ShutIdle /\ SubIdle /\ ApiIdle

SpecRelease == InitRelease /\ [][RelNext]_vars

\* HealthCheck calls on a manager, for every state of its stream.
InitHealth ==
  PubInit /\ PoolNew([Nonblocking |-> FALSE, MaxBlockTasks |-> 0], 1) /\ StrIdle
    /\ ShutIdle /\ SubIdle /\ ApiInit

SpecHealth == InitHealth /\ [][HealthNext]_vars

\* Subscribe calls on a manager, for every list of caller options.
InitSubscribe ==
  PubInit /\ PoolNew([Nonblocking |-> FALSE, MaxBlockTasks |-> 0], 1) /\ StrIdle
    /\ ShutIdle /\ SubIdle /\ ApiIdle

SpecSubscribe == InitSubscribe /\ [][SubscribeNext]_vars

\* Deliveries of a subscription, dispatched to the pool.
InitDispatch == PubInit /\ PoolInit /\ StrIdle /\ ShutIdle /\ SubIdle /\ ApiIdle

SpecDispatch == InitDispatch /\ [][SubNext]_vars

\* ===================================================== claims on Publish

\* Every attempt of the finished call was answered with a retryable error.
PermanentRetryableFault ==
  /\ outcomes # <<>>
  /\ \A i \in DOMAIN outcomes : outcomes[i] \in RetryableErrs

IsCancellation(r) == r.kind \in {"ctxCancelled", "ctxCancelledDuringRetry"}

\* C1: under a permanently-failing retryable fault and a context that is
\* never cancelled, a finished Publish call has made exactly 3 attempts and
\* returned an error wrapping the error of the last attempt; and no Publish
\* call ever makes more than 3 attempts.
C1_ExhaustsThreeAttempts ==
  /\ attempts <= 3
  /\ (pc = "done" /\ ~ctxDone /\ PermanentRetryableFault) =>
       /\ attempts = 3
       /\ result.kind = "failedAfter"
       /\ result.cause = outcomes[Len(outcomes)]

C1_Witness ==
  /\ pc = "done" /\ ~ctxDone /\ PermanentRetryableFault
  /\ attempts = 3
  /\ outcomes[1] # outcomes[3]

\* C2: a non-retryable error ends the call at the attempt that produced it:
\* no attempt follows it, the call has returned with that error as the cause;
\* when it was the first attempt, exactly 1 attempt was made and no backoff
\* sleep happened.
C2_NonRetryableStops ==
  \A i \in DOMAIN outcomes :
    outcomes[i] \in NonRetryableErrs =>
      /\ i = Len(outcomes)
      /\ attempts = i
      /\ pc = "done"
      /\ result.kind = "failedAfter"
      /\ result.cause = outcomes[i]
      /\ (i = 1 => sleeps = <<>>)

C2_Witness ==
  /\ pc = "done"
  /\ outcomes = <<"ErrInvalidJSAck">>
  /\ attempts = 1
  /\ sleeps = <<>>

\* C3: when ctx is cancelled while the call is about to check it before an
\* attempt (at call time included) or while it sleeps in backoff, the call
\* makes no further attempt, and once it has returned it has returned a
\* cancellation error; at call time that means zero attempts.  (When ctx is
\* cancelled while an attempt is in flight, no attempt follows that one.)
C3_CancelStopsAttempts ==
  /\ cancelAt.pc \in {"check", "sleep"} =>
       /\ attempts = cancelAt.attempts
       /\ pc # "attempt"
       /\ (pc = "done" => IsCancellation(result) /\ result.cause = CtxErr)
       /\ (cancelAt.pc = "check" /\ cancelAt.attempt = 0 => attempts = 0)
  \* a cancel that lands while an attempt is in flight: that attempt is the last
  /\ cancelAt.pc = "attempt" => attempts <= cancelAt.attempts + 1

\* The context was cancelled during the backoff sleep and the timer branch of
\* the select woke first: the next loop-top check returned the cancellation.
C3_Witness ==
  /\ pc = "done"
  /\ cancelAt.pc = "sleep"
  /\ result = ctxCancelled
  /\ attempts = 2

\* C4 (as claimed): under a permanently-failing retryable fault the call
\* sleeps 100ms, 200ms and 400ms, one after each failed attempt, before it
\* returns its error.
C4_Original_ThreeSleeps ==
  (pc = "done" /\ ~ctxDone /\ PermanentRetryableFault) =>
    sleeps = <<100, 200, 400>>

\* C4 (amended): under a permanently-failing retryable fault the call sleeps
\* exactly two backoff delays, 100ms after failed attempt 0 and 200ms after
\* failed attempt 1, and none after the failed final attempt 2.
C4_TwoSleeps ==
  (pc = "done" /\ ~ctxDone /\ PermanentRetryableFault) =>
    /\ sleeps = <<100, 200>>
    /\ attempts = 3

C4_Witness ==
  /\ pc = "done" /\ ~ctxDone /\ PermanentRetryableFault
  /\ sleeps = <<100, 200>>
  /\ result.kind = "failedAfter"

\* ----------------------------------------------------------- C25, C26, C29
\* The attempt failed with an error the loop retries.
FailedRetryable(o) == o # "ok" /\ o \notin NonRetryableErrs

\* C25: attempt j of a call (counted from 1) is followed by a backoff sleep
\* exactly when it failed with a retryable error and was not the final
\* attempt; the sleep after the first attempt is of 100ms and the one after
\* the second of 200ms; there is no other sleep.
C25_SleepOnlyBetweenAttempts ==
  /\ Len(sleeps) <= Len(outcomes)
  /\ Len(sleeps) <= 2
  /\ \A j \in 1..Len(outcomes) :
       j <= Len(sleeps) <=> (FailedRetryable(outcomes[j]) /\ j < 3)
  /\ Len(sleeps) >= 1 => sleeps[1] = 100
  /\ Len(sleeps) >= 2 => sleeps[2] = 200

C25_Witness ==
  /\ pc = "done"
  /\ Len(outcomes) = 3
  /\ outcomes[3] \in NonRetryableErrs
  /\ sleeps = <<100, 200>>

\* C26: a finished call returned nil exactly when one of its attempts was
\* accepted; the accepted attempt is the last one made, all attempts before
\* it failed with retryable errors, and the broker accepted the message once:
\* the step that accepts it ends the call with nil, and nothing is accepted
\* after the call has ended.
C26_NilIffAccepted ==
  /\ [](/\ attempts <= 3
        /\ attempts = Len(outcomes)
        /\ pc = "done" /\ calls > 0
             => (result.kind = "nil" <=> \E j \in DOMAIN outcomes : outcomes[j] = "ok")
        /\ \A j \in DOMAIN outcomes :
             outcomes[j] = "ok"
               => /\ j = Len(outcomes)
                  /\ pc = "done"
                  /\ result.kind = "nil"
                  /\ \A i \in 1..(j - 1) : FailedRetryable(outcomes[i]))
  /\ [][/\ streamSeq' # streamSeq
             => /\ streamSeq' = streamSeq + 1
                /\ outcomes' = Append(outcomes, "ok")
                /\ pc' = "done"
                /\ result'.kind = "nil"
        /\ pc = "done" /\ pc' = "done" => streamSeq' = streamSeq]_vars

C26_Witness ==
  /\ pc = "done"
  /\ result.kind = "nil"
  /\ Len(outcomes) = 3
  /\ outcomes[3] = "ok"
  /\ streamSeq = 1

\* C29 (as stated): the attempt count named in a failure that is not a
\* cancellation equals the number of attempts the call made.
C29_Original_CountNamesAttemptsMade ==
  pc = "done" /\ result.kind = "failedAfter" => result.n = attempts

\* ================================================= claims on worker.Pool

\* Calls that passed WaitingTasks.Add(1) and whose task has not begun.
NotYetBegun == {t \in Tasks : st[t] \in {"entered", "blocked", "refused", "queued"}}

\* Tasks between RunningTasks.Add(1) and the end of wrappedTask.
Executing ==
  {t \in Tasks : st[t] \in {"begun", "returned", "panicked", "deferred"}}

\* Tasks an ants worker holds.
WithWorker == {t \in Tasks : st[t] = "queued"} \cup Executing

\* C5 (as claimed): every executed task adds exactly 1 to exactly one of
\* completed and failed: a normal return to completed only, a returned
\* error to failed only, a recovered panic to failed only.
C5_Original_ExactlyOneCounter ==
  \A t \in Tasks :
    st[t] = "finished" =>
      /\ delta[t].completed + delta[t].failed = 1
      /\ (kind[t] = "ok" => delta[t].completed = 1 /\ delta[t].failed = 0)
      /\ (kind[t] \in {"err", "panic"} =>
            delta[t].completed = 0 /\ delta[t].failed = 1)

\* C6: a task that panicked has, once wrappedTask ended, added exactly 1 to
\* failed, nothing to completed and net nothing to running; its worker is
\* back in the pool (no worker is held by anything but a task in flight), so
\* tasks submitted afterwards are accepted and executed (the witness).
C6_PanicIsolated ==
  /\ \A t \in Tasks :
       (st[t] = "finished" /\ kind[t] = "panic") =>
         /\ delta[t].failed = 1
         /\ delta[t].completed = 0
         /\ delta[t].running = 0
  /\ busy = Cardinality(WithWorker)

C6_Witness ==
  \E t, u \in Tasks :
    /\ st[t] = "finished" /\ kind[t] = "panic" /\ delta[t].failed = 1
    /\ afterPanic[u] /\ st[u] = "finished" /\ kind[u] = "ok"
    /\ busy = 0

\* C7: in non-blocking mode a Submit whose p.pool.Submit call finds the pool
\* at capacity is refused with an error; the body of a refused task is never
\* invoked, and once Submit has returned the call has added net nothing to
\* waiting.
C7_NonblockingOverload ==
  /\ [](\A t \in Tasks :
          (cfg.Nonblocking /\ st[t] \in {"refused", "rejected"}) =>
            /\ ~invoked[t]
            /\ kind[t] = "unset"
            /\ ret[t] \in {"ErrPoolOverload", "ErrPoolClosed"}
            /\ (st[t] = "rejected" => delta[t].waiting = 0))
  /\ [][\A t \in Tasks :
          (cfg.Nonblocking /\ st[t] = "entered" /\ busy >= cap
             /\ st'[t] # st[t]) => st'[t] = "refused"]_vars

C7_Witness ==
  \E t, u \in Tasks :
    /\ cfg.Nonblocking
    /\ st[t] = "rejected" /\ ret[t] = "ErrPoolOverload" /\ ~invoked[t]
    /\ st[u] = "finished"
    /\ waiting = 0

\* C8: a Submit with an already-cancelled ctx returns ctx.Err() in one step,
\* adds exactly 1 to failed and nothing to waiting, running or completed, and
\* its task is never handed to a worker nor invoked.
C8_CancelledCtxRejected ==
  /\ [](\A t \in Tasks :
          st[t] = "rejectedCtx" =>
            /\ ret[t] = "ctx.Err"
            /\ delta[t] = [NoDelta EXCEPT !.failed = 1]
            /\ ~invoked[t]
            /\ kind[t] = "unset")
  /\ [][\A t \in Tasks :
          (st[t] = "new" /\ st'[t] = "rejectedCtx") =>
            /\ failed' = failed + 1
            /\ waiting' = waiting /\ running' = running
            /\ completed' = completed /\ busy' = busy]_vars
  /\ [][\A t \in Tasks : st[t] = "rejectedCtx" => st'[t] = "rejectedCtx"]_vars

C8_Witness ==
  \E t, u \in Tasks :
    /\ st[t] = "rejectedCtx" /\ delta[t].failed = 1
    /\ st[u] = "finished"
    /\ failed = 1 /\ completed = 1

\* C9 (as claimed): waiting is the number of accepted tasks that have not
\* begun executing, running the number of tasks executing, and no task is
\* counted in both at once.
C9_Original_WaitingExcludesRunning ==
  /\ waiting = Cardinality(NotYetBegun)
  /\ running = Cardinality(Executing)
  /\ \A t \in Tasks : ~(delta[t].waiting = 1 /\ delta[t].running = 1)

\* C10: under every interleaving of Submit calls, task executions, Tune and
\* Release, running and waiting are never negative and completed and failed
\* never decrease.
C10_CountersSane ==
  /\ [](running >= 0 /\ waiting >= 0)
  /\ [][completed' >= completed /\ failed' >= failed]_vars

\* A blocked Submit was refused by Release while a task, accepted before a
\* Tune, had been executed.
C10_Witness ==
  \E t, u \in Tasks :
    /\ closed /\ cap # 1 /\ ~cfg.Nonblocking
    /\ st[t] = "rejected" /\ ret[t] = "ErrPoolClosed"
    /\ st[u] = "finished"
    /\ running = 0 /\ waiting = 0

\* ---------------------------------------------------------------- C11..C15
Reconciled(m) == mg[m].pc \in {"reconciled", "done"}

\* The lookup of m answered with the stream's policy.
FoundStream(m) == Reconciled(m) /\ mg[m].lookErr = "nil"

\* The policy the lookup answered equals the desired one in every compared
\* field, the subject lists as sequences.
SameCompared(a, b) ==
  /\ a.MaxAge = b.MaxAge
  /\ a.MaxMsgs = b.MaxMsgs
  /\ a.MaxBytes = b.MaxBytes
  /\ a.Storage = b.Storage
  /\ a.Retention = b.Retention
  /\ a.Subjects = b.Subjects

\* C11: when the lookup finds the stream with a policy equal to the desired
\* one in every compared field, reconciliation issues no update call and no
\* create call and returns success.
C11_EqualPolicyNoCalls ==
  \A m \in Managers :
    FoundStream(m) /\ SameCompared(mg[m].seen, mg[m].desired)
      => /\ mg[m].nUpdate = 0
         /\ mg[m].nCreate = 0
         /\ mg[m].serr = NoErr
         /\ (mg[m].pc = "done" /\ mg[m].mode = "ensure" => mg[m].retErr = NoErr)

C11_Witness ==
  \E m \in Managers :
    /\ mg[m].pc = "done"
    /\ mg[m].mode = "ensure"
    /\ mg[m].lookErr = "nil"
    /\ mg[m].desired.Subjects = <<"a", "b">>
    /\ SameCompared(mg[m].seen, mg[m].desired)

\* C12: when the lookup finds the stream with a policy that differs from the
\* desired one in a compared field (the order of the subjects included),
\* reconciliation issues exactly one update call, with the desired policy,
\* and no create call.
C12_DifferentPolicyOneUpdate ==
  \A m \in Managers :
    FoundStream(m) /\ ~SameCompared(mg[m].seen, mg[m].desired)
      => /\ mg[m].nUpdate = 1
         /\ mg[m].updArg = mg[m].desired
         /\ mg[m].nCreate = 0

C12_Witness ==
  \E m \in Managers :
    /\ FoundStream(m)
    /\ mg[m].desired.Subjects = <<"a", "b">>
    /\ mg[m].seen = [mg[m].desired EXCEPT !.Subjects = <<"b", "a">>]
    /\ mg[m].nUpdate = 1

\* The lookup of m answered not-found and its create call was answered.
CreateCalled(m) ==
  Reconciled(m) /\ mg[m].lookErr = "ErrStreamNotFound" /\ mg[m].nCreate = 1

\* C13: when the stream is not found and the create call fails with the
\* overlapping-subjects conflict, reconciliation returns success; any other
\* failure of the create call is returned as an error.
C13_OverlapIsSuccess ==
  \A m \in Managers :
    CreateCalled(m)
      => /\ mg[m].creErr = "ErrSubjectsOverlap" => mg[m].serr = NoErr
         /\ mg[m].creErr \notin {"nil", "ErrSubjectsOverlap"}
              => mg[m].serr # NoErr /\ errorsIs(mg[m].serr, mg[m].creErr)
         /\ (mg[m].pc = "done" /\ mg[m].mode = "ensure"
              => mg[m].retErr = mg[m].serr)

C13_Witness ==
  /\ \E m \in Managers :
       /\ CreateCalled(m)
       /\ mg[m].pc = "done"
       /\ mg[m].mode = "ensure"
       /\ mg[m].creErr = "ErrSubjectsOverlap"
  /\ \E m \in Managers :
       /\ CreateCalled(m)
       /\ mg[m].pc = "done"
       /\ mg[m].mode = "ensure"
       /\ mg[m].creErr = "ErrTimeout"

\* NewNatsManager has returned.
Constructed(m) == mg[m].mode = "new" /\ mg[m].pc = "done"

NoManagerReturned(m) == ~mg[m].retMgr /\ mg[m].retErr # NoErr

\* C14 (as stated): construction returns an error and no manager when the
\* JetStream context cannot be obtained, when the lookup fails with an error
\* other than not-found, or when the feature is disabled.
C14_Original_ConstructionFatal ==
  \A m \in Managers :
    Constructed(m)
      => /\ mg[m].jsErr # "nil" => NoManagerReturned(m)
         /\ mg[m].lookErr \in LookupFaults => NoManagerReturned(m)
         /\ errorsIs(mg[m].serr, "ErrJetStreamNotEnabled")
              => NoManagerReturned(m)

\* The update call of m was answered with a failure.
UpdateFailed(m) == mg[m].nUpdate = 1 /\ mg[m].updErr # "nil"

\* C15 (as stated): when the update call fails, reconciliation returns the
\* failure and NewNatsManager returns a manager with no error.
C15_Original_UpdateFailureNotFatal ==
  \A m \in Managers :
    Reconciled(m) /\ UpdateFailed(m)
      => /\ errorsIs(mg[m].serr, mg[m].updErr)
         /\ (Constructed(m) => mg[m].retMgr /\ mg[m].retErr = NoErr)

\* C15 (amended): when the update call fails, reconciliation returns the
\* failure; NewNatsManager returns a manager with no error unless the
\* failure is JetStream-not-enabled, for which it returns that error and no
\* manager.
C15_UpdateFailureNotFatal ==
  \A m \in Managers :
    Reconciled(m) /\ UpdateFailed(m)
      => /\ errorsIs(mg[m].serr, mg[m].updErr)
         /\ (Constructed(m) =>
               IF mg[m].updErr = "ErrJetStreamNotEnabled"
                 THEN /\ NoManagerReturned(m)
                      /\ errorsIs(mg[m].retErr, "ErrJetStreamNotEnabled")
                 ELSE mg[m].retMgr /\ mg[m].retErr = NoErr)

C15_Witness ==
  /\ \E m \in Managers :
       Constructed(m) /\ UpdateFailed(m) /\ mg[m].updErr = "ErrTimeout"
  /\ \E m \in Managers :
       Constructed(m) /\ UpdateFailed(m)
         /\ mg[m].updErr = "ErrJetStreamNotEnabled"

\* ---------------------------------------------------------------------- C20
\* Both managers ran reconciliation for the same policy, the broker answered
\* every call truthfully, and the stream did not exist when the first of
\* them looked it up.
ConcurrentEnsure ==
  /\ \A m \in Managers : mg[m].pc = "done" /\ mg[m].faults = 0
  /\ \A m, n \in Managers : mg[m].desired = mg[n].desired
  /\ \E m \in Managers : mg[m].lookErr = "ErrStreamNotFound"

\* C20: two managers reconciling the same policy concurrently while the
\* stream does not exist both return success, under every interleaving of
\* their calls, and the stream ends with the desired policy.
C20_ConcurrentEnsureSafe ==
  ConcurrentEnsure
    => /\ \A m \in Managers : mg[m].serr = NoErr /\ mg[m].retErr = NoErr
       /\ \A m \in Managers : stream = mg[m].desired

\* Both managers looked the stream up before either created it.
C20_Witness ==
  /\ ConcurrentEnsure
  /\ \A m \in Managers : mg[m].nCreate = 1 /\ mg[m].creErr = "nil"


\* ---------------------------------------------------------------- C16, C17
\* The Submit call t was accepted by the pool.
Accepted(t) ==
  st[t] \in {"queued", "begun", "returned", "panicked", "deferred", "finished"}

\* C16 (as stated): after a Release or GracefulShutdown call has returned,
\* every later Submit returns an error and its task is never executed.
C16_Original_NoSubmitAfterShutdown ==
  shutDone =>
    \A t \in Called \ shutBefore :
      /\ ~Accepted(t)
      /\ ~invoked[t]
      /\ ret[t] # "nil"

\* C17 (as stated): GracefulShutdown returns nil only when no task is still
\* executing: the running counter is 0 and no worker holds a task at the
\* return.
C17_Original_NilOnlyWhenDrained ==
  gs = "nil" => gsRunning = 0 /\ gsExecuting = 0

\* ---------------------------------------------------------------------- C18
\* The delivery t ended with a failed Submit.
SubmitFailed(t) == st[t] \in {"refused", "rejected"}

\* C18: the handler of a delivery is invoked at most once, and only by a
\* worker after the pool accepted the task; when Submit fails the handler is
\* never invoked and the dispatcher sends no acknowledgement.
C18_HandlerOnlyAfterAccept ==
  \A t \in Tasks :
    /\ hcalls[t] <= 1
    /\ hcalls[t] = 1 => Accepted(t) /\ ret[t] = "nil" /\ st[t] # "queued"
    /\ SubmitFailed(t) => hcalls[t] = 0 /\ acks[t] = 0
    /\ dsp[t] = "dropped" => hcalls[t] = 0 /\ acks[t] = 0 /\ ret[t] # "nil"
    /\ acks[t] = 0

C18_Witness ==
  /\ \E t \in Tasks : dsp[t] = "dropped" /\ ret[t] = "ErrPoolOverload"
  /\ \E t \in Tasks : st[t] = "finished" /\ hcalls[t] = 1 /\ hkind[t] = "err"

\* ---------------------------------------------------------------------- C19
\* C19 (as stated, for Submit): a Submit call whose ctx is cancelled while
\* it is parked for capacity returns an error: it does not go on waiting
\* until a worker is free and hand its task over.
C19_Original_BlockedSubmitObservesCancel ==
  \A t \in cancelledBlocked :
    /\ ~Accepted(t)
    /\ ret[t] # "nil"
    /\ ~invoked[t]


\* ---------------------------------------------------------------- C24, C27
\* C24: when the lookup answers not-found, reconciliation issues exactly one
\* create call, with the desired policy, and no update call; when the lookup
\* fails with another error, reconciliation returns that error and issues
\* neither call.
C24_NotFoundCreatesOnce ==
  \A m \in Managers :
    /\ Reconciled(m) /\ mg[m].lookErr = "ErrStreamNotFound"
         => /\ mg[m].nCreate = 1
            /\ mg[m].creArg = mg[m].desired
            /\ mg[m].nUpdate = 0
    /\ mg[m].pc = "create" => mg[m].nCreate = 0 /\ mg[m].nUpdate = 0
    /\ Reconciled(m) /\ mg[m].lookErr \in LookupFaults
         => /\ mg[m].serr # NoErr
            /\ errorsIs(mg[m].serr, mg[m].lookErr)
            /\ mg[m].nCreate = 0
            /\ mg[m].nUpdate = 0
            /\ (mg[m].pc = "done" /\ mg[m].mode = "ensure"
                  => mg[m].retErr = mg[m].serr)

C24_Witness ==
  /\ \E m \in Managers :
       /\ mg[m].pc = "done"
       /\ mg[m].lookErr = "ErrStreamNotFound"
       /\ mg[m].nCreate = 1
       /\ stream = mg[m].desired
  /\ \E m \in Managers :
       /\ mg[m].pc = "done"
       /\ mg[m].mode = "ensure"
       /\ mg[m].lookErr = "ErrTimeout"

\* C27 (as stated): when NewNatsManager returns a manager and no error, it
\* has not released the pool; it releases the pool only on the paths that
\* return an error.
C27_Original_PoolActiveWhenManagerReturned ==
  \A m \in Managers :
    Constructed(m)
      => /\ mg[m].retMgr /\ mg[m].retErr = NoErr => mg[m].released = 0
         /\ mg[m].released > 0 => mg[m].retErr # NoErr


\* ---------------------------------------------------------------------- C28
\* No Submit call is in progress and no accepted task is unfinished.
Quiescent == \A t \in Tasks : st[t] \in {"new", "rejectedCtx", "rejected", "finished"}

\* C28: at quiescence waiting = 0 and running = 0, and every Submit call
\* that has ended (rejected for its ctx, rejected by the pool, or accepted
\* and finished) changed each of the two gauges by net zero.
C28_GaugesZeroAtQuiescence ==
  /\ Quiescent => waiting = 0 /\ running = 0
  /\ \A t \in Tasks :
       st[t] \in {"rejectedCtx", "rejected", "finished"}
         => delta[t].waiting = 0 /\ delta[t].running = 0

C28_Witness ==
  /\ Quiescent
  /\ \E t, u \in Tasks :
       /\ st[t] = "finished" /\ kind[t] = "panic"
       /\ st[u] = "rejected" /\ ret[u] = "ErrPoolOverload"

\* ---------------------------------------------------------------------- C30
\* C30: a delivery whose handler ran and returned an error is counted by the
\* pool as completed and not as failed, the wrapped task having returned
\* nil; the dispatcher logs the error and sends no acknowledgement of any
\* kind, for no delivery, whatever the handler did.
C30_HandlerErrorNotEscalated ==
  \A t \in Tasks :
    /\ acks[t] = 0
    /\ hkind[t] = "err"
         => /\ kind[t] = "ok"
            /\ logged[t] = 1
            /\ delta[t].failed = 0
            /\ st[t] = "finished" => delta[t].completed = 1

C30_Witness ==
  /\ \E t \in Tasks : st[t] = "finished" /\ hkind[t] = "err" /\ failed = 0
  /\ \E t \in Tasks : st[t] = "finished" /\ hkind[t] = "ok"


\* ---------------------------------------------------------------------- C21
\* C21: a Release call on a pool that is already released (made directly, by
\* Close of the manager, or by GracefulShutdown) changes no counter and no
\* pool state; the first one only closes the pool; after any number of
\* Release calls the pool is closed.
C21_ReleaseIdempotent ==
  /\ [](nRelease >= 1 => closed)
  /\ [][nRelease' # nRelease
          => /\ closed'
             /\ <<completed, failed, running, waiting, cfg, cap, busy, st,
                  kind, ret, invoked, delta, afterPanic>>'
                  = <<completed, failed, running, waiting, cfg, cap, busy, st,
                      kind, ret, invoked, delta, afterPanic>>
             /\ closed => poolVars' = poolVars]_vars

\* The pool was released twice and a task accepted before that ran on.
C21_Witness ==
  /\ releases = {"Release", "Close", "GracefulShutdown"}
  /\ closed
  /\ \E t \in Tasks : st[t] = "finished"


\* ---------------------------------------------------------------- C22, C23
\* C22: with a successful lookup and max_msgs > 0, HealthCheck warns exactly
\* when the message count is at least 90% of max_msgs (9000 of 10000 warns,
\* 8999 of 10000 does not) and returns nil either way; it returns an error
\* exactly when the lookup fails, and then does not warn.
C22_WarnAtNinetyPercent ==
  hc.pc = "done" =>
    /\ hc.ret # NoErr <=> hc.lookErr # "nil"
    /\ hc.lookErr # "nil" => ~hc.warned /\ errorsIs(hc.ret, hc.lookErr)
    /\ hc.lookErr = "nil" /\ hc.max > 0
         => /\ hc.warned <=> 10 * hc.msgs >= 9 * hc.max
            /\ hc.msgs = 9000 /\ hc.max = 10000 => hc.warned
            /\ hc.msgs = 8999 /\ hc.max = 10000 => ~hc.warned

C22_Witness ==
  /\ hc.pc = "done"
  /\ hc.lookErr = "nil"
  /\ hc.msgs = 9000
  /\ hc.max = 10000
  /\ hc.warned
  /\ hc.ret = NoErr

\* The positions of the caller's options that set k.
CallerSets(k) == {i \in DOMAIN sbs.opts : sbs.opts[i].key = k}

\* The value the default options give k.
DefaultOf(k) ==
  CASE k = "ManualAck" -> "true"
    [] k = "AckWait" -> "5s"
    [] k = "MaxDeliver" -> "3"
    [] k = "DeliverPolicy" -> "all"
    [] OTHER -> "unset"

\* C23: Subscribe passes the broker manual ack, 5s ack wait, max 3
\* deliveries and deliver-all, followed by the caller's options in the
\* caller's order; every setting the caller gives has the caller's last
\* value, every other one its default.
C23_CallerOptionsOverrideDefaults ==
  sbs.pc = "done" =>
    /\ Len(sbs.passed) = 4 + Len(sbs.opts)
    /\ sbs.passed[1] = SubOpt("ManualAck", "true")
    /\ sbs.passed[2] = SubOpt("AckWait", "5s")
    /\ sbs.passed[3] = SubOpt("MaxDeliver", "3")
    /\ sbs.passed[4] = SubOpt("DeliverPolicy", "all")
    /\ \A i \in DOMAIN sbs.opts : sbs.passed[4 + i] = sbs.opts[i]
    /\ \A k \in OptKeys :
         IF CallerSets(k) = {}
           THEN sbs.effective[k] = DefaultOf(k)
           ELSE \E i \in CallerSets(k) :
                  /\ \A j \in CallerSets(k) : j <= i
                  /\ sbs.effective[k] = sbs.opts[i].val

C23_Witness ==
  /\ sbs.pc = "done"
  /\ sbs.opts = <<SubOpt("AckWait", "30s"), SubOpt("AckWait", "10s")>>
  /\ sbs.effective["AckWait"] = "10s"
  /\ sbs.effective["MaxDeliver"] = "3"
  /\ sbs.retSub


====
